---- MODULE Spec2Model ----
(***************************************************************************)
(* Model of the lookup orchestration and credit ledger of bot.py:          *)
(* admission (_verificar_creditos_o_mensaje), the four start handlers      *)
(* (iniciar_consulta_firma and its siblings), the registry and ledger      *)
(* operations, the polling worker (ejecutar_consulta_en_hilo._run) and     *)
(* the result classifier (es_respuesta_exitosa_hercules).                  *)
(***************************************************************************)
EXTENDS Integers, Sequences, FiniteSets, TLC

\* ------------------------------------------------------------------ bounds
\* Number of lookup starts (webhook requests that reach a start handler).
MaxIntentos == 2
\* Number of direct calls of the registry operations in SpecRegistro.
MaxLlamadas == 3
\* Longest time one call of llamar_resultados takes, in polling intervals.
MaxDuracion == 1
\* Number of times the classifier is applied to one payload in SpecClasificador.
MaxClasificaciones == 2

\* ------------------------------------------------------- program constants
TIPO_CONSULTA_VEHICULO_PERSONA == 1
TIPO_CONSULTA_VEHICULO_SOLO == 3
TIPO_CONSULTA_PROPIETARIO_POR_PLACA == 4
TIPO_CONSULTA_PERSONA == 5
TIPO_CONSULTA_FIRMA == 8
\* Both are read from the environment (os.getenv); the model runs with a short
\* configuration, in units of one polling interval.
RESULTADOS_INTERVALO == 1
RESULTADOS_TIMEOUT == 2

MENSAJE_DESHABILITADA == "DESHABILITADA"
MENSAJE_SIN_CREDITOS == "SIN_CREDITOS"
MENSAJE_ERROR_GENERICO == "ERROR_GENERICO"
MENSAJE_SIN_DATOS == "SIN_DATOS"
\* Any text a formatter builds from the payload.
TEXTO_RESULTADO == "RESULTADO"
DOC_FIRMA == "DOC_FIRMA"
DOC_PDF == "DOC_PDF"

Usuarios == {"u1", "u2"}
\* consultas_config rows seeded by init_db, keyed by tipo_consulta.
TiposConfig == {TIPO_CONSULTA_VEHICULO_SOLO, TIPO_CONSULTA_PROPIETARIO_POR_PLACA,
                TIPO_CONSULTA_PERSONA, TIPO_CONSULTA_FIRMA}
\* The kinds whose row the administrative surface rewrites in the model.
TiposAdministrados == {TIPO_CONSULTA_FIRMA}
\* creditos_total of a user: the starting grant of 10, or a grant after top-ups.
Grants == [u1 |-> {10000}, u2 |-> {10, 5000}]
\* valor_consulta values the administrative surface may set.
Precios == {5000, 10000}

\* ------------------------------------------------------- remote payloads
\* Python values are encoded as strings: "None" is None/absent, "i0" the int 0,
\* "s0" the str "0", and so on.
NoMensaje ==
    [clase |-> "None", Error |-> "None", codigoResultado |-> "None",
     codigo |-> "None", error |-> "None", firma |-> "None"]

\* Inner content of the given class carrying no flag at all.
Contenido(clase) == [NoMensaje EXCEPT !.clase = clase]

\* A JSON object {"Tipo": t, "Mensaje": m}.
Payload(t, m) ==
    [clase |-> "dict", Tipo |-> t, tipo |-> "None", Mensaje |-> m, mensaje |-> NoMensaje]

\* The JSON object {}.
PayloadVacio ==
    [clase |-> "dict_vacio", Tipo |-> "None", tipo |-> "None",
     Mensaje |-> NoMensaje, mensaje |-> NoMensaje]

\* A JSON value that is not an object (a list, a number, null).
PayloadNoDict == [PayloadVacio EXCEPT !.clase = "no_dict"]

\* ultimo_data = None
SinDatos == [PayloadVacio EXCEPT !.clase = "None"]

\* What GET /api/resultados may answer with status 200.
Respuestas ==
    { Payload("i2", Contenido("str_no_json")),
      Payload("s2", Contenido("str_no_json")),
      Payload("s0", [Contenido("str_json_dict") EXCEPT !.firma = "R0lGOD"]),
      Payload("i0", Contenido("dict")),
      Payload("i0", Contenido("str_no_json")),
      Payload("i0", [Contenido("str_json_dict") EXCEPT !.Error = "True"]),
      PayloadVacio,
      PayloadNoDict }

\* The flag fields a structured inner content may carry: Error as JSON true or
\* as the text "true", a result code under either key, a free-text error.
Banderas ==
    [Error : {"None", "True", "sTrue"},
     codigoResultado : {"None", "", "EXITOSO", "exitoso", "ERROR"},
     codigo : {"None", "ERROR"},
     error : {"None", "Vehiculo No Encontrado", "otro error"}]

\* Inner contents handed to the classifier: nothing, empty values, text that is
\* no JSON, JSON that is no object, a non-empty list ("otro"), and JSON objects
\* (as text or already decoded) with every combination of flags.
Contenidos ==
    {Contenido(c) : c \in {"None", "str_vacio", "dict_vacio", "str_no_json",
                           "str_json_otro", "otro"}}
    \cup {[clase |-> c, Error |-> b.Error, codigoResultado |-> b.codigoResultado,
           codigo |-> b.codigo, error |-> b.error, firma |-> "None"] :
              c \in {"str_json_dict", "dict"}, b \in Banderas}

\* The values the classifier is applied to: JSON objects, as dict or as a str
\* still to be parsed, and the values that are no object at all.
Cargas ==
    {[clase |-> c, Tipo |-> t, tipo |-> tt, Mensaje |-> m, mensaje |-> mm] :
         c \in {"dict", "str_dict"},
         t \in {"None", "i0", "s0", "i1", "i2", "s2"},
         tt \in {"None", "i0"},
         m \in Contenidos,
         mm \in {NoMensaje, Contenido("str_no_json")}}
    \cup {PayloadVacio, PayloadNoDict, SinDatos,
          [PayloadVacio EXCEPT !.clase = "str_no_json"]}

\* str(x)
PyStr(x) ==
    CASE x = "i0" -> "0"
      [] x = "s0" -> "0"
      [] x = "i1" -> "1"
      [] x = "i2" -> "2"
      [] x = "s2" -> "2"
      [] OTHER -> x

\* str(x).upper() on the result codes of the model
PyUpper(x) ==
    CASE x = "exitoso" -> "EXITOSO"
      [] x = "Exitoso" -> "EXITOSO"
      [] x = "error" -> "ERROR"
      [] OTHER -> x

\* "no encontrado" in x.lower(), on the error texts of the model
ContieneNoEncontrado(x) ==
    x \in {"Vehiculo No Encontrado", "no encontrado", "PERSONA NO ENCONTRADO EN BD"}

\* bool(m) of an inner content
MensajeTruthy(m) == m.clase \notin {"None", "str_vacio", "dict_vacio"}

\* data.get("Mensaje") or data.get("mensaje")
MensajeDe(data) == IF MensajeTruthy(data.Mensaje) THEN data.Mensaje ELSE data.mensaje

\* tipo = data.get("Tipo"); if tipo is None: tipo = data.get("tipo")
TipoDe(data) == IF data.Tipo # "None" THEN data.Tipo ELSE data.tipo

\* bool(ultimo_data)
DataTruthy(data) == data.clase \notin {"None", "dict_vacio"}

\* Variant of the classifier: Tipo is not looked at.
ClasificadorSinTipo(data) ==
    IF data.clase \notin {"dict", "dict_vacio", "str_dict"} THEN FALSE
    ELSE LET mensaje_raw == MensajeDe(data) IN
         IF ~MensajeTruthy(mensaje_raw) THEN FALSE
         ELSE IF mensaje_raw.clase \notin {"str_json_dict", "dict"} THEN TRUE
         ELSE IF mensaje_raw.Error = "True" THEN FALSE
         ELSE LET codigo == IF mensaje_raw.codigoResultado \notin {"None", ""}
                            THEN mensaje_raw.codigoResultado ELSE mensaje_raw.codigo IN
              IF codigo \notin {"None", ""} /\ PyUpper(codigo) # "EXITOSO" THEN FALSE
              ELSE IF ContieneNoEncontrado(mensaje_raw.error) THEN FALSE
              ELSE TRUE

\* Variant of the classifier: the result code is not looked at.
ClasificadorSinCodigo(data) ==
    IF data.clase \notin {"dict", "dict_vacio", "str_dict"} THEN FALSE
    ELSE IF PyStr(TipoDe(data)) # "0" THEN FALSE
    ELSE LET mensaje_raw == MensajeDe(data) IN
         IF ~MensajeTruthy(mensaje_raw) THEN FALSE
         ELSE IF mensaje_raw.clase \notin {"str_json_dict", "dict"} THEN TRUE
         ELSE IF mensaje_raw.Error = "True" THEN FALSE
         ELSE IF ContieneNoEncontrado(mensaje_raw.error) THEN FALSE
         ELSE TRUE

\* Variant of the classifier: content that is no JSON object is refused.
ClasificadorEstricto(data) ==
    IF data.clase \notin {"dict", "dict_vacio", "str_dict"} THEN FALSE
    ELSE IF PyStr(TipoDe(data)) # "0" THEN FALSE
    ELSE LET mensaje_raw == MensajeDe(data) IN
         IF ~MensajeTruthy(mensaje_raw) THEN FALSE
         ELSE IF mensaje_raw.clase \notin {"str_json_dict", "dict"} THEN FALSE
         ELSE IF mensaje_raw.Error = "True" THEN FALSE
         ELSE LET codigo == IF mensaje_raw.codigoResultado \notin {"None", ""}
                            THEN mensaje_raw.codigoResultado ELSE mensaje_raw.codigo IN
              IF codigo \notin {"None", ""} /\ PyUpper(codigo) # "EXITOSO" THEN FALSE
              ELSE IF ContieneNoEncontrado(mensaje_raw.error) THEN FALSE
              ELSE TRUE

\* A data that is a str is parsed first ("str_dict" holds a JSON object); a str
\* that is no JSON raises inside the try and the except clause returns False.
es_respuesta_exitosa_hercules(data) ==
    IF data.clase \notin {"dict", "dict_vacio", "str_dict"} THEN FALSE
    ELSE IF PyStr(TipoDe(data)) # "0" THEN FALSE
    ELSE LET mensaje_raw == MensajeDe(data) IN
         IF ~MensajeTruthy(mensaje_raw) THEN FALSE
         ELSE IF mensaje_raw.clase = "str_no_json" THEN TRUE
         ELSE IF mensaje_raw.clase \notin {"str_json_dict", "str_json_otro", "dict"} THEN TRUE
         ELSE IF mensaje_raw.clase = "str_json_otro" THEN TRUE
         ELSE IF mensaje_raw.Error = "True" THEN FALSE
         ELSE LET codigo == IF mensaje_raw.codigoResultado \notin {"None", ""}
                            THEN mensaje_raw.codigoResultado ELSE mensaje_raw.codigo IN
              IF codigo \notin {"None", ""} /\ PyUpper(codigo) # "EXITOSO" THEN FALSE
              ELSE IF ContieneNoEncontrado(mensaje_raw.error) THEN FALSE
              ELSE TRUE


\* ------------------------------------------------------- formatters
\* json.loads(mensaje) followed by info.get(...) succeeds: the content is a str
\* holding a JSON object.
CargaJsonDict(m) == m.clase = "str_json_dict"

\* formatear_respuesta_firma: <<texto, firma_b64>>. Text that is not JSON is
\* shown raw, dict content is accepted, and JSON that is no object makes
\* info.get raise, which the formatter turns into the generic text.
formatear_respuesta_firma(data) ==
    LET m == MensajeDe(data) IN
    IF m.clase = "str_json_otro" THEN <<MENSAJE_ERROR_GENERICO, "None">>
    ELSE IF m.clase \in {"str_json_dict", "dict"} THEN <<TEXTO_RESULTADO, m.firma>>
    ELSE <<TEXTO_RESULTADO, "None">>

\* formatear_respuesta_persona: json.loads on whatever Mensaje holds.
formatear_respuesta_persona(data) ==
    IF CargaJsonDict(MensajeDe(data)) THEN <<TEXTO_RESULTADO, "None">>
    ELSE <<MENSAJE_ERROR_GENERICO, "None">>

\* formatear_respuesta_vehiculo: as firma, never a signature.
formatear_respuesta_vehiculo(data) ==
    LET m == MensajeDe(data) IN
    IF m.clase = "str_json_otro" THEN <<MENSAJE_ERROR_GENERICO, "None">>
    ELSE <<TEXTO_RESULTADO, "None">>

\* formatear_respuesta_propietario: json.loads on whatever Mensaje holds.
formatear_respuesta_propietario(data) ==
    IF CargaJsonDict(MensajeDe(data)) THEN <<TEXTO_RESULTADO, "None">>
    ELSE <<MENSAJE_ERROR_GENERICO, "None">>

\* The formateador_respuesta each start handler passes to the worker.
Formatear(servicio, data) ==
    CASE servicio = "firma" -> formatear_respuesta_firma(data)
      [] servicio = "persona" -> formatear_respuesta_persona(data)
      [] servicio = "vehiculo_placa" -> formatear_respuesta_vehiculo(data)
      [] OTHER -> formatear_respuesta_propietario(data)

\* ------------------------------------------------------- remote submit
\* What POST /api/IniciarConsulta may answer; http "error" is a transport
\* failure or a non-2xx status.
Acks ==
    { [http |-> "error", IdPeticion |-> "None", Tipo |-> "None", Mensaje |-> "None"],
      [http |-> "ok", IdPeticion |-> "guid", Tipo |-> "None", Mensaje |-> "None"],
      [http |-> "ok", IdPeticion |-> "None", Tipo |-> "i0", Mensaje |-> "guid"],
      [http |-> "ok", IdPeticion |-> "None", Tipo |-> "i0", Mensaje |-> ""],
      [http |-> "ok", IdPeticion |-> "None", Tipo |-> "i1", Mensaje |-> "fallo"],
      [http |-> "ok", IdPeticion |-> "", Tipo |-> "s0", Mensaje |-> "guid"],
      [http |-> "ok", IdPeticion |-> "", Tipo |-> "None", Mensaje |-> "None"] }

\* Variant of llamar_iniciar_consulta: what the acknowledgment holds is returned
\* without being tested.
LlamarIniciarSinComprobar(ack) ==
    IF ack.http # "ok" THEN "RAISE"
    ELSE IF ack.IdPeticion # "None" THEN ack.IdPeticion
    ELSE ack.Mensaje

\* The IdPeticion, or "RAISE" when the call raises.
llamar_iniciar_consulta(ack) ==
    IF ack.http # "ok" THEN "RAISE"
    ELSE IF ack.IdPeticion \notin {"None", ""} THEN ack.IdPeticion
    ELSE IF ack.Tipo = "i0" /\ ack.Mensaje \notin {"None", ""} THEN ack.Mensaje
    ELSE "RAISE"

\* ------------------------------------------------------- state
VARIABLES
    usuarios,   \* table usuarios: creditos_total, creditos_usados per user
    config,     \* table consultas_config, by tipo_consulta
    mensajes,   \* table mensajes, the row id is the index
    intentos,   \* one entry per lookup start: the handler's outcome, the
                \* worker's position and locals, what was sent to the chat
    llamadas,   \* direct calls of the registry operations (SpecRegistro)
    clasificacion  \* a payload handed to the classifier and what each call
                   \* of it returned (SpecClasificador)

vars == <<usuarios, config, mensajes, intentos, llamadas, clasificacion>>

\* ------------------------------------------------------- ledger, registry
\* Variant of usuario_creditos_disponibles: the difference, without the floor.
DisponiblesSinPiso(usuario) == usuario.creditos_total - usuario.creditos_usados

usuario_creditos_disponibles(usuario) ==
    IF usuario.creditos_total - usuario.creditos_usados > 0
    THEN usuario.creditos_total - usuario.creditos_usados ELSE 0

\* The mensajes table after registrar_mensaje_pendiente; the new id is its length.
\* resoluciones counts the writes of estado (history, not a column).
registrar_mensaje_pendiente(ms, usuario, tipo_consulta, nombre_servicio, valor_consulta) ==
    Append(ms, [usuario_id |-> usuario, tipo_consulta |-> tipo_consulta,
                nombre_servicio |-> nombre_servicio, creditos_costo |-> valor_consulta,
                estado |-> "pendiente", respuesta_bruta |-> SinDatos,
                mensaje_error |-> "None", resoluciones |-> 0])

\* Variant of CobroUsados: the commit stores the loaded value, nothing added.
CobroUsadosSinSumar(leido, costo) == leido

\* usuario.creditos_usados += msg.creditos_costo, on the value the session loaded.
CobroUsados(leido, costo) == leido + costo

\* marcar_mensaje_exito_y_cobrar, the commit: both rows are written together.
\* leido is the creditos_usados the session's SELECT returned.
MensajesTrasExito(ms, mensaje_id, respuesta_bruta) ==
    IF mensaje_id \notin DOMAIN ms THEN ms
    ELSE [ms EXCEPT ![mensaje_id].estado = "exito",
                    ![mensaje_id].respuesta_bruta = respuesta_bruta,
                    ![mensaje_id].resoluciones = @ + 1]

\* Variant of UsuariosTrasCobro: the amount is the kind's valor_consulta at the
\* time of the commit, not the record's creditos_costo.
UsuariosTrasCobroPrecioActual(us, ms, mensaje_id, leido) ==
    IF mensaje_id \notin DOMAIN ms THEN us
    ELSE [us EXCEPT ![ms[mensaje_id].usuario_id].creditos_usados =
                        CobroUsados(leido,
                            IF ms[mensaje_id].tipo_consulta \in DOMAIN config
                            THEN config[ms[mensaje_id].tipo_consulta].valor_consulta
                            ELSE ms[mensaje_id].creditos_costo)]

UsuariosTrasCobro(us, ms, mensaje_id, leido) ==
    IF mensaje_id \notin DOMAIN ms THEN us
    ELSE [us EXCEPT ![ms[mensaje_id].usuario_id].creditos_usados =
                        CobroUsados(leido, ms[mensaje_id].creditos_costo)]

\* Variant of marcar_mensaje_error_o_sin_datos: the price captured on the record
\* is cleared as well.
MarcarBorrandoCosto(ms, mensaje_id, estado, mensaje_error, respuesta_bruta) ==
    IF mensaje_id \notin DOMAIN ms THEN ms
    ELSE [ms EXCEPT ![mensaje_id].estado = estado,
                    ![mensaje_id].mensaje_error =
                        IF mensaje_error = "" THEN estado ELSE mensaje_error,
                    ![mensaje_id].respuesta_bruta =
                        IF respuesta_bruta # SinDatos THEN respuesta_bruta ELSE @,
                    ![mensaje_id].creditos_costo = 0,
                    ![mensaje_id].resoluciones = @ + 1]

\* Variant of marcar_mensaje_error_o_sin_datos: the detail passed is dropped and
\* the estado stored in its place.
MarcarSinDetalle(ms, mensaje_id, estado, mensaje_error, respuesta_bruta) ==
    IF mensaje_id \notin DOMAIN ms THEN ms
    ELSE [ms EXCEPT ![mensaje_id].estado = estado,
                    ![mensaje_id].mensaje_error = estado,
                    ![mensaje_id].respuesta_bruta =
                        IF respuesta_bruta # SinDatos THEN respuesta_bruta ELSE @,
                    ![mensaje_id].resoluciones = @ + 1]

\* marcar_mensaje_error_o_sin_datos: never touches usuarios.
marcar_mensaje_error_o_sin_datos(ms, mensaje_id, estado, mensaje_error, respuesta_bruta) ==
    IF mensaje_id \notin DOMAIN ms THEN ms
    ELSE [ms EXCEPT ![mensaje_id].estado = estado,
                    ![mensaje_id].mensaje_error =
                        IF mensaje_error = "" THEN estado ELSE mensaje_error,
                    ![mensaje_id].respuesta_bruta =
                        IF respuesta_bruta # SinDatos THEN respuesta_bruta ELSE @,
                    ![mensaje_id].resoluciones = @ + 1]

\* ------------------------------------------------------- admission
\* Variant of _verificar_creditos_o_mensaje: the balance is not compared.
VerificarSinSaldo(usuario_db, cfg) ==
    IF cfg.estado_consulta # "ACTIVA" THEN MENSAJE_DESHABILITADA ELSE "OK"

\* Variant of _verificar_creditos_o_mensaje: estado_consulta is not looked at.
VerificarSinEstado(usuario_db, cfg) ==
    IF usuario_creditos_disponibles(usuario_db) < cfg.valor_consulta
    THEN MENSAJE_SIN_CREDITOS
    ELSE "OK"

\* "OK" when _verificar_creditos_o_mensaje returns True, else the message it sends.
_verificar_creditos_o_mensaje(usuario_db, cfg) ==
    IF cfg.estado_consulta # "ACTIVA" THEN MENSAJE_DESHABILITADA
    ELSE IF usuario_creditos_disponibles(usuario_db) < cfg.valor_consulta
         THEN MENSAJE_SIN_CREDITOS
         ELSE "OK"

\* ------------------------------------------------------- worker launch
\* def ejecutar_consulta_en_hilo(chat_id, usuario, mensaje_id, tipo_consulta,
\*                               mensaje_parametro_str, id_peticion, formateador_respuesta)
ParametrosHilo ==
    <<"chat_id", "usuario", "mensaje_id", "tipo_consulta",
      "mensaje_parametro_str", "id_peticion", "formateador_respuesta">>

\* Python binds the call: the positional arguments take the first parameters,
\* and a keyword naming one of those raises TypeError, as does a missing one.
LlamadaLiga(posicionales, claves) ==
    /\ {ParametrosHilo[i] : i \in 1..posicionales} \cap claves = {}
    /\ {ParametrosHilo[i] : i \in 1..posicionales} \cup claves
           = {ParametrosHilo[i] : i \in 1..Len(ParametrosHilo)}

TodasLasClaves == {ParametrosHilo[i] : i \in 1..Len(ParametrosHilo)}


\* ------------------------------------------------------- initial state
\* init_db seeds every kind ACTIVA at 5000; users exist with nothing consumed.
ConfigInicial == [valor_consulta |-> 5000, estado_consulta |-> "ACTIVA"]

Init ==
    /\ \E g \in [Usuarios -> {10, 5000, 10000}] :
          /\ \A u \in Usuarios : g[u] \in Grants[u]
          /\ usuarios = [u \in Usuarios |-> [creditos_total |-> g[u], creditos_usados |-> 0]]
    /\ config = [tc \in TiposConfig |-> ConfigInicial]
    /\ mensajes = <<>>
    /\ intentos = <<>>
    /\ llamadas = 0
    /\ clasificacion = [data |-> SinDatos, resultados |-> <<>>]

\* ------------------------------------------------------- administrative surface
\* valor_consulta and estado_consulta are columns an administrator rewrites.
CambiarConfig(tc, valor, estado) ==
    /\ tc \in TiposAdministrados
    /\ config[tc] # [valor_consulta |-> valor, estado_consulta |-> estado]
    /\ config' = [config EXCEPT ![tc] = [valor_consulta |-> valor, estado_consulta |-> estado]]
    /\ UNCHANGED <<usuarios, mensajes, intentos, llamadas, clasificacion>>

\* ------------------------------------------------------- start handlers
\* The entry of intentos a start leaves behind. tipo_admision, admision,
\* disponibles, precio and activa record what the handler asked for and saw
\* (history); tipo_admision is the argument of get_consulta_config.
IntentoNuevo(usuario, servicio, tipo_config, cfg) ==
    [usuario |-> usuario, servicio |-> servicio, pc |-> "fin",
     tipo_admision |-> tipo_config,
     mensaje_id |-> 0, tipo_consulta |-> 0, id_peticion |-> "None",
     t |-> 0, ultimo_data |-> SinDatos, leido |-> 0,
     salida |-> "None", excepcion |-> "None",
     enviados |-> <<>>, n_iniciar |-> 0, n_formateo |-> 0,
     admision |-> _verificar_creditos_o_mensaje(usuarios[usuario], cfg),
     disponibles |-> IF usuarios[usuario].creditos_total > usuarios[usuario].creditos_usados
                     THEN usuarios[usuario].creditos_total - usuarios[usuario].creditos_usados
                     ELSE 0,
     precio |-> cfg.valor_consulta,
     activa |-> (cfg.estado_consulta = "ACTIVA"),
     propagada |-> FALSE]

\* Variant of IniciarConsulta: the record is registered before the submit, and
\* marked error when the submit raises.
IniciarConsultaRegistraAntes(usuario, servicio, tipo_config, tipo_envio, posicionales, claves) ==
    /\ Len(intentos) < MaxIntentos
    /\ LET cfg == config[tipo_config]
           nuevo == IntentoNuevo(usuario, servicio, tipo_config, cfg)
           registrados == registrar_mensaje_pendiente(
                              mensajes, usuario, tipo_envio, servicio, cfg.valor_consulta)
       IN
       IF nuevo.admision # "OK"
       THEN /\ intentos' = Append(intentos, [nuevo EXCEPT !.enviados = <<nuevo.admision>>])
            /\ UNCHANGED mensajes
       ELSE \E ack \in Acks :
              LET id_peticion == llamar_iniciar_consulta(ack) IN
              IF id_peticion = "RAISE"
              THEN /\ mensajes' = marcar_mensaje_error_o_sin_datos(
                                      registrados, Len(registrados), "error",
                                      "IniciarConsulta", SinDatos)
                   /\ intentos' = Append(intentos,
                         [nuevo EXCEPT !.n_iniciar = 1, !.excepcion = "IniciarConsulta",
                                       !.mensaje_id = Len(registrados),
                                       !.enviados = <<MENSAJE_ERROR_GENERICO>>])
              ELSE /\ mensajes' = registrados
                   /\ intentos' = Append(intentos,
                         [nuevo EXCEPT !.n_iniciar = 1,
                                       !.mensaje_id = Len(registrados),
                                       !.tipo_consulta = tipo_envio,
                                       !.id_peticion = id_peticion,
                                       !.pc = IF LlamadaLiga(posicionales, claves)
                                              THEN "sondeo" ELSE "fin",
                                       !.excepcion = IF LlamadaLiga(posicionales, claves)
                                                     THEN "None" ELSE "TypeError",
                                       !.propagada = ~LlamadaLiga(posicionales, claves)])
    /\ UNCHANGED <<usuarios, config, llamadas, clasificacion>>

\* Variant of IniciarConsulta: a start is coalesced with a lookup of the same
\* user and service that is still in flight, and submits nothing of its own.
IniciarConsultaSinDuplicados(usuario, servicio, tipo_config, tipo_envio, posicionales, claves) ==
    /\ Len(intentos) < MaxIntentos
    /\ LET cfg == config[tipo_config]
           nuevo == IntentoNuevo(usuario, servicio, tipo_config, cfg)
           en_vuelo == \E j \in DOMAIN intentos :
                           /\ intentos[j].usuario = usuario
                           /\ intentos[j].servicio = servicio
                           /\ intentos[j].pc # "fin"
       IN
       IF nuevo.admision # "OK"
       THEN /\ intentos' = Append(intentos, [nuevo EXCEPT !.enviados = <<nuevo.admision>>])
            /\ UNCHANGED mensajes
       ELSE IF en_vuelo
       THEN /\ intentos' = Append(intentos, nuevo)
            /\ UNCHANGED mensajes
       ELSE \E ack \in Acks :
              LET id_peticion == llamar_iniciar_consulta(ack) IN
              IF id_peticion = "RAISE"
              THEN /\ intentos' = Append(intentos,
                         [nuevo EXCEPT !.n_iniciar = 1, !.excepcion = "IniciarConsulta",
                                       !.enviados = <<MENSAJE_ERROR_GENERICO>>])
                   /\ UNCHANGED mensajes
              ELSE /\ mensajes' = registrar_mensaje_pendiente(
                                      mensajes, usuario, tipo_envio, servicio, cfg.valor_consulta)
                   /\ intentos' = Append(intentos,
                         [nuevo EXCEPT !.n_iniciar = 1,
                                       !.mensaje_id = Len(mensajes) + 1,
                                       !.tipo_consulta = tipo_envio,
                                       !.id_peticion = id_peticion,
                                       !.pc = IF LlamadaLiga(posicionales, claves)
                                              THEN "sondeo" ELSE "fin",
                                       !.excepcion = IF LlamadaLiga(posicionales, claves)
                                                     THEN "None" ELSE "TypeError",
                                       !.propagada = ~LlamadaLiga(posicionales, claves)])
    /\ UNCHANGED <<usuarios, config, llamadas, clasificacion>>

\* The body the four handlers share: tipo_config is the kind whose configuration
\* is read, tipo_envio the kind submitted and stored, posicionales and claves
\* the shape of the call of ejecutar_consulta_en_hilo.
IniciarConsulta(usuario, servicio, tipo_config, tipo_envio, posicionales, claves) ==
    /\ Len(intentos) < MaxIntentos
    /\ LET cfg == config[tipo_config]
           nuevo == IntentoNuevo(usuario, servicio, tipo_config, cfg)
       IN
       IF nuevo.admision # "OK"
       THEN /\ intentos' = Append(intentos, [nuevo EXCEPT !.enviados = <<nuevo.admision>>])
            /\ UNCHANGED mensajes
       ELSE \E ack \in Acks :
              LET id_peticion == llamar_iniciar_consulta(ack) IN
              IF id_peticion = "RAISE"
              THEN /\ intentos' = Append(intentos,
                         [nuevo EXCEPT !.n_iniciar = 1, !.excepcion = "IniciarConsulta",
                                       !.enviados = <<MENSAJE_ERROR_GENERICO>>])
                   /\ UNCHANGED mensajes
              ELSE /\ mensajes' = registrar_mensaje_pendiente(
                                      mensajes, usuario, tipo_envio, servicio, cfg.valor_consulta)
                   /\ intentos' = Append(intentos,
                         [nuevo EXCEPT !.n_iniciar = 1,
                                       !.mensaje_id = Len(mensajes) + 1,
                                       !.tipo_consulta = tipo_envio,
                                       !.id_peticion = id_peticion,
                                       !.pc = IF LlamadaLiga(posicionales, claves)
                                              THEN "sondeo" ELSE "fin",
                                       !.excepcion = IF LlamadaLiga(posicionales, claves)
                                                     THEN "None" ELSE "TypeError",
                                       !.propagada = ~LlamadaLiga(posicionales, claves)])
    /\ UNCHANGED <<usuarios, config, llamadas, clasificacion>>

iniciar_consulta_firma(usuario) ==
    IniciarConsulta(usuario, "firma", TIPO_CONSULTA_FIRMA, TIPO_CONSULTA_FIRMA,
                    0, TodasLasClaves)

iniciar_consulta_persona(usuario) ==
    IniciarConsulta(usuario, "persona", TIPO_CONSULTA_PERSONA, TIPO_CONSULTA_PERSONA,
                    0, TodasLasClaves)

\* The call of ejecutar_consulta_en_hilo passes one positional argument and
\* chat_id again by keyword.
iniciar_consulta_vehiculo(usuario) ==
    IniciarConsulta(usuario, "vehiculo_placa", TIPO_CONSULTA_VEHICULO_SOLO,
                    TIPO_CONSULTA_VEHICULO_PERSONA, 1, TodasLasClaves)

iniciar_consulta_propietario(usuario) ==
    IniciarConsulta(usuario, "propietario_placa", TIPO_CONSULTA_PROPIETARIO_POR_PLACA,
                    TIPO_CONSULTA_PROPIETARIO_POR_PLACA, 0, TodasLasClaves)

\* ------------------------------------------------------- worker (_run)
\* llamar_resultados raising (transport error, status other than 200).
ErrorHttp == [PayloadVacio EXCEPT !.clase = "error_http"]

\* Variant of SigueProcesando: the text "2" keeps the loop going as well.
SigueProcesandoTexto(data) == TipoDe(data) \in {"i2", "s2"}

\* The polling loop sleeps and polls again on this payload.
SigueProcesando(data) == TipoDe(data) = "i2"

\* Variant of Veredicto: a rejected payload takes the no-data branch's place
\* in the error branch.
VeredictoRechazoComoError(ultimo_data) ==
    IF ~DataTruthy(ultimo_data) THEN "error"
    ELSE IF es_respuesta_exitosa_hercules(ultimo_data) THEN "exito"
    ELSE "error"

\* The branch _run takes once the loop is left with ultimo_data.
Veredicto(ultimo_data) ==
    IF ~DataTruthy(ultimo_data) THEN "error"
    ELSE IF es_respuesta_exitosa_hercules(ultimo_data) THEN "exito"
    ELSE "sin_datos"

\* Variant of Fallar: the detail stored on the record is what is sent.
FallarMostrandoDetalle(i, estado, detalle, bruta, texto, data, salida, excepcion, t) ==
    /\ mensajes' = marcar_mensaje_error_o_sin_datos(
                       mensajes, intentos[i].mensaje_id, estado, detalle, bruta)
    /\ intentos' = [intentos EXCEPT ![i].pc = "fin",
                                    ![i].t = t,
                                    ![i].ultimo_data = data,
                                    ![i].salida = salida,
                                    ![i].excepcion = excepcion,
                                    ![i].enviados = Append(@, detalle)]
    /\ UNCHANGED usuarios

\* The two failure branches: the record is marked, then the text is sent.
\* detalle is mensaje_error, bruta the respuesta_bruta argument.
\* t is the time at which the loop was left.
Fallar(i, estado, detalle, bruta, texto, data, salida, excepcion, t) ==
    /\ mensajes' = marcar_mensaje_error_o_sin_datos(
                       mensajes, intentos[i].mensaje_id, estado, detalle, bruta)
    /\ intentos' = [intentos EXCEPT ![i].pc = "fin",
                                    ![i].t = t,
                                    ![i].ultimo_data = data,
                                    ![i].salida = salida,
                                    ![i].excepcion = excepcion,
                                    ![i].enviados = Append(@, texto)]
    /\ UNCHANGED usuarios

\* Variant of TrasElBucle: on success the result is delivered without the
\* record being marked or the user charged.
TrasElBucleEntregaAntes(i, data, salida, t) ==
    CASE Veredicto(data) = "error" ->
            Fallar(i, "error", "timeout", SinDatos, MENSAJE_ERROR_GENERICO,
                   data, salida, "None", t)
      [] Veredicto(data) = "exito" ->
            /\ intentos' = [intentos EXCEPT
                   ![i].pc = "entregar",
                   ![i].t = t,
                   ![i].ultimo_data = data,
                   ![i].salida = salida]
            /\ UNCHANGED <<mensajes, usuarios>>
      [] OTHER ->
            Fallar(i, "sin_datos", "sin datos o no exitosa", data, MENSAJE_SIN_DATOS,
                   data, salida, "None", t)

\* What follows the loop, for the ultimo_data it was left with. On success
\* this is the SELECT of marcar_mensaje_exito_y_cobrar; its commit is Cobrar.
TrasElBucle(i, data, salida, t) ==
    CASE Veredicto(data) = "error" ->
            Fallar(i, "error", "timeout", SinDatos, MENSAJE_ERROR_GENERICO,
                   data, salida, "None", t)
      [] Veredicto(data) = "exito" ->
            /\ intentos' = [intentos EXCEPT
                   ![i].pc = "cobrar",
                   ![i].t = t,
                   ![i].ultimo_data = data,
                   ![i].salida = salida,
                   ![i].leido = usuarios[intentos[i].usuario].creditos_usados]
            /\ UNCHANGED <<mensajes, usuarios>>
      [] OTHER ->
            Fallar(i, "sin_datos", "sin datos o no exitosa", data, MENSAJE_SIN_DATOS,
                   data, salida, "None", t)

\* How long one call of llamar_resultados may take; nothing interrupts it.
Duraciones == 0..MaxDuracion

\* Variant of AntesDelPlazo: the deadline is taken one interval too late.
PlazoHolgado(t) == t < RESULTADOS_TIMEOUT + RESULTADOS_INTERVALO

\* while time.time() < deadline, t being the time since deadline was computed.
AntesDelPlazo(t) == t < RESULTADOS_TIMEOUT

\* Variant of TrasDormir: the loop goes on at once, the clock standing still.
SinDormir(t) == t

\* time.sleep(RESULTADOS_INTERVALO)
TrasDormir(t) == t + RESULTADOS_INTERVALO

\* One turn of the while loop: the deadline test, then one poll, which returns
\* (or raises) after its duration; a poll that raises, or whose answer is no
\* JSON object, lands in the except clause.
Sondear(i) ==
    /\ i \in DOMAIN intentos
    /\ intentos[i].pc = "sondeo"
    /\ LET w == intentos[i] IN
       IF ~AntesDelPlazo(w.t)
       THEN TrasElBucle(i, w.ultimo_data, "deadline", w.t)
       ELSE \E data \in Respuestas \cup {ErrorHttp}, d \in Duraciones :
              IF data.clase = "error_http"
              THEN Fallar(i, "error", "HTTPError", SinDatos, MENSAJE_ERROR_GENERICO,
                          w.ultimo_data, "excepcion", "HTTPError", w.t + d)
              ELSE IF data.clase = "no_dict"
              THEN Fallar(i, "error", "AttributeError", SinDatos, MENSAJE_ERROR_GENERICO,
                          data, "excepcion", "AttributeError", w.t + d)
              ELSE IF SigueProcesando(data)
              THEN /\ intentos' = [intentos EXCEPT ![i].ultimo_data = data,
                                                   ![i].t = TrasDormir(w.t + d)]
                   /\ UNCHANGED <<mensajes, usuarios>>
              ELSE TrasElBucle(i, data, "break", w.t + d)
    /\ UNCHANGED <<config, llamadas, clasificacion>>

\* db.commit() of marcar_mensaje_exito_y_cobrar.
Cobrar(i) ==
    /\ i \in DOMAIN intentos
    /\ intentos[i].pc = "cobrar"
    /\ mensajes' = MensajesTrasExito(mensajes, intentos[i].mensaje_id, intentos[i].ultimo_data)
    /\ usuarios' = UsuariosTrasCobro(usuarios, mensajes, intentos[i].mensaje_id, intentos[i].leido)
    /\ intentos' = [intentos EXCEPT ![i].pc = "entregar"]
    /\ UNCHANGED <<config, llamadas, clasificacion>>

\* What the success path sends: the formatted text, the signature when the
\* formatter returned one, the PDF when tipo_consulta is TIPO_CONSULTA_VEHICULO_SOLO.
Entregas(w) ==
    LET r == Formatear(w.servicio, w.ultimo_data) IN
    <<r[1]>>
    \o (IF r[2] \notin {"None", ""} THEN <<DOC_FIRMA>> ELSE <<>>)
    \o (IF w.tipo_consulta = TIPO_CONSULTA_VEHICULO_SOLO THEN <<DOC_PDF>> ELSE <<>>)

Entregar(i) ==
    /\ i \in DOMAIN intentos
    /\ intentos[i].pc = "entregar"
    /\ intentos' = [intentos EXCEPT ![i].pc = "fin",
                                    ![i].n_formateo = @ + 1,
                                    ![i].enviados = @ \o Entregas(intentos[i])]
    /\ UNCHANGED <<usuarios, config, mensajes, llamadas, clasificacion>>

Trabajar(i) == Sondear(i) \/ Cobrar(i) \/ Entregar(i)

\* The lookups the chat layer starts in the model.
Arranques == {<<"u1", "firma">>, <<"u1", "persona">>, <<"u1", "vehiculo_placa">>,
              <<"u1", "propietario_placa">>, <<"u2", "firma">>}

Next ==
    \/ \E u \in Usuarios : <<u, "firma">> \in Arranques /\ iniciar_consulta_firma(u)
    \/ \E u \in Usuarios : <<u, "persona">> \in Arranques /\ iniciar_consulta_persona(u)
    \/ \E u \in Usuarios : <<u, "vehiculo_placa">> \in Arranques /\ iniciar_consulta_vehiculo(u)
    \/ \E u \in Usuarios : <<u, "propietario_placa">> \in Arranques /\ iniciar_consulta_propietario(u)
    \/ \E i \in 1..MaxIntentos : Sondear(i)
    \/ \E i \in 1..MaxIntentos : Cobrar(i)
    \/ \E i \in 1..MaxIntentos : Entregar(i)
    \/ \E tc \in TiposConfig, v \in Precios, e \in {"ACTIVA", "INACTIVA"} : CambiarConfig(tc, v, e)

Spec == Init /\ [][Next]_vars

\* Every launched worker thread keeps running.
FairSpec == Spec /\ \A i \in 1..MaxIntentos : WF_vars(Trabajar(i))


\* ------------------------------------------------------- registry operations alone
\* The registry and ledger operations called directly, on any record id and
\* in any order, as a caller of section 5's functions may.
LlamarRegistrar(usuario, tc) ==
    /\ Len(mensajes) < MaxIntentos
    /\ mensajes' = registrar_mensaje_pendiente(
                       mensajes, usuario, tc, "directo", config[tc].valor_consulta)
    /\ UNCHANGED <<usuarios, config, intentos, llamadas, clasificacion>>

LlamarMarcarExito(mensaje_id, respuesta_bruta) ==
    /\ llamadas < MaxLlamadas
    /\ mensaje_id \in DOMAIN mensajes
    /\ mensajes' = MensajesTrasExito(mensajes, mensaje_id, respuesta_bruta)
    /\ usuarios' = UsuariosTrasCobro(usuarios, mensajes, mensaje_id,
                       usuarios[mensajes[mensaje_id].usuario_id].creditos_usados)
    /\ llamadas' = llamadas + 1
    /\ UNCHANGED <<config, intentos, clasificacion>>

\* The mensaje_error arguments of the calls; "" is the default of the parameter.
Detalles == {"", "timeout"}

\* The respuesta_bruta arguments of the failure calls: the default None, a
\* refused answer, an empty answer.
BrutasDeFallo ==
    {SinDatos, PayloadVacio,
     Payload("i0", [Contenido("str_json_dict") EXCEPT !.Error = "True"])}

\* A call with an id no record has returns at once (if not msg: return).
LlamarMarcarError(mensaje_id, estado, mensaje_error, respuesta_bruta) ==
    /\ llamadas < MaxLlamadas
    /\ mensajes' = marcar_mensaje_error_o_sin_datos(
                       mensajes, mensaje_id, estado, mensaje_error, respuesta_bruta)
    /\ llamadas' = llamadas + 1
    /\ UNCHANGED <<usuarios, config, intentos, clasificacion>>

NextRegistro ==
    \/ \E u \in Usuarios, tc \in TiposConfig : LlamarRegistrar(u, tc)
    \/ \E id \in 1..MaxIntentos, d \in Respuestas : LlamarMarcarExito(id, d)
    \/ \E id \in 1..MaxIntentos, e \in {"error", "sin_datos"}, m \in Detalles,
          d \in BrutasDeFallo :
           LlamarMarcarError(id, e, m, d)

SpecRegistro == Init /\ [][NextRegistro]_vars

\* ------------------------------------------------------- classifier alone
\* es_respuesta_exitosa_hercules called on any payload, more than once.
InitClasificador ==
    /\ \E g \in [Usuarios -> {10, 5000, 10000}] :
          /\ \A u \in Usuarios : g[u] \in Grants[u]
          /\ usuarios = [u \in Usuarios |-> [creditos_total |-> g[u], creditos_usados |-> 0]]
    /\ config = [tc \in TiposConfig |-> ConfigInicial]
    /\ mensajes = <<>>
    /\ intentos = <<>>
    /\ llamadas = 0
    /\ \E d \in Cargas : clasificacion = [data |-> d, resultados |-> <<>>]

\* Variant of Clasificar: the call leaves the parsed value in its argument.
ClasificarMutando ==
    /\ Len(clasificacion.resultados) < MaxClasificaciones
    /\ clasificacion' =
           [data |-> [clasificacion.data EXCEPT
                          !.clase = IF @ = "str_dict" THEN "dict" ELSE @,
                          !.Tipo = PyStr(@)],
            resultados |-> Append(clasificacion.resultados,
                                  es_respuesta_exitosa_hercules(clasificacion.data))]
    /\ UNCHANGED <<usuarios, config, mensajes, intentos, llamadas>>

\* One call: the value returned is kept, the argument is what it was.
Clasificar ==
    /\ Len(clasificacion.resultados) < MaxClasificaciones
    /\ clasificacion' =
           [clasificacion EXCEPT
               !.resultados = Append(@, es_respuesta_exitosa_hercules(clasificacion.data))]
    /\ UNCHANGED <<usuarios, config, mensajes, intentos, llamadas>>

NextClasificador == Clasificar

SpecClasificador == InitClasificador /\ [][NextClasificador]_vars

\* ------------------------------------------------------- shared vocabulary
Resueltos == {"exito", "error", "sin_datos"}

\* The record of attempt i, when the handler registered one.
Registro(i) == mensajes[intentos[i].mensaje_id]

\* The record with this id leaves pendiente in the step.
SeResuelve(id) ==
    /\ id \in DOMAIN mensajes
    /\ mensajes[id].estado = "pendiente"
    /\ mensajes'[id].estado # "pendiente"

\* creditos_usados of the record's owner, after the step minus before it.
Incremento(id) ==
    usuarios'[mensajes[id].usuario_id].creditos_usados
        - usuarios[mensajes[id].usuario_id].creditos_usados

\* Every record was registered by exactly one start, and no other row exists.
RegistrosDeIntentos ==
    /\ \A id \in DOMAIN mensajes :
           Cardinality({i \in DOMAIN intentos : intentos[i].mensaje_id = id}) = 1
    /\ \A i \in DOMAIN intentos : intentos[i].mensaje_id \in {0} \cup DOMAIN mensajes

\* ------------------------------------------------------- claims

\* C1: in every step that resolves a record, the owner's creditos_usados grows
\* by exactly the record's creditos_costo when the record becomes exito and
\* stays as it was when it becomes error or sin_datos; and no step changes any
\* user's creditos_usados without resolving a record as exito.
C1_CobroExactoSiiExito ==
    [][ /\ \A id \in DOMAIN mensajes :
               SeResuelve(id) =>
                   Incremento(id) = IF mensajes'[id].estado = "exito"
                                    THEN mensajes[id].creditos_costo ELSE 0
        /\ (usuarios' # usuarios) =>
               \E id \in DOMAIN mensajes :
                   SeResuelve(id) /\ mensajes'[id].estado = "exito" ]_vars

\* C2: a record becomes exito in exactly the steps in which its worker's charge
\* is written: the commit that sets estado to exito is the commit that stores
\* creditos_usados = (the value the session loaded) + creditos_costo for the
\* record's owner, so exito without the write, or the write without exito, is
\* never observable.
C2_ExitoYCobroAtomicos ==
    [][ \A i \in DOMAIN intentos :
            intentos[i].mensaje_id # 0 =>
                LET id == intentos[i].mensaje_id
                    u == mensajes[id].usuario_id
                IN  /\ (mensajes[id].estado # "exito" /\ mensajes'[id].estado = "exito")
                           <=> (intentos[i].pc = "cobrar" /\ intentos'[i].pc # "cobrar")
                    /\ (intentos[i].pc = "cobrar" /\ intentos'[i].pc # "cobrar")
                           => /\ usuarios'[u].creditos_usados
                                     = intentos[i].leido + mensajes[id].creditos_costo
                              /\ usuarios'[u].creditos_usados > 0
                    /\ (intentos[i].pc # "cobrar" /\ mensajes[id].estado = "exito")
                           => mensajes'[id].estado = "exito" ]_vars

\* C2 witness: a record is exito and the owner's ledger holds its charge, the
\* result not yet delivered.
C2_Witness ==
    \E i \in DOMAIN intentos :
        /\ intentos[i].pc = "entregar"
        /\ Registro(i).estado = "exito"
        /\ usuarios[intentos[i].usuario].creditos_usados = Registro(i).creditos_costo

\* C3 as stated: a start with disponibles < precio registers nothing, calls
\* neither IniciarConsulta nor resultados, and sends MENSAJE_SIN_CREDITOS.
C3_Original ==
    \A i \in DOMAIN intentos :
        intentos[i].disponibles < intentos[i].precio =>
            /\ intentos[i].mensaje_id = 0
            /\ intentos[i].n_iniciar = 0
            /\ intentos[i].pc = "fin" /\ intentos[i].salida = "None"
            /\ intentos[i].enviados = <<MENSAJE_SIN_CREDITOS>>

\* C3 amended: a start with disponibles < precio registers nothing and calls
\* neither IniciarConsulta nor resultados; it sends MENSAJE_SIN_CREDITOS when the
\* kind is ACTIVA and the disabled-service message when it is not.
C3_SinCreditosNoInicia ==
    /\ RegistrosDeIntentos
    /\ \A i \in DOMAIN intentos :
           intentos[i].disponibles < intentos[i].precio =>
               /\ intentos[i].mensaje_id = 0
               /\ intentos[i].n_iniciar = 0
               /\ intentos[i].pc = "fin" /\ intentos[i].salida = "None"
               /\ intentos[i].enviados =
                      <<IF intentos[i].activa THEN MENSAJE_SIN_CREDITOS
                        ELSE MENSAJE_DESHABILITADA>>

\* C3 witness: an enabled kind refused for lack of credits, after an earlier
\* lookup of the same user was charged.
C3_Witness ==
    \E i \in DOMAIN intentos :
        /\ intentos[i].disponibles < intentos[i].precio
        /\ intentos[i].activa
        /\ usuarios[intentos[i].usuario].creditos_usados > 0
        /\ intentos[i].enviados = <<MENSAJE_SIN_CREDITOS>>

\* C4: a start of a kind that is not ACTIVA registers nothing, calls neither
\* IniciarConsulta nor resultados, and sends the disabled-service message,
\* whatever the balance.
C4_DeshabilitadaNoInicia ==
    /\ RegistrosDeIntentos
    /\ \A i \in DOMAIN intentos :
           ~intentos[i].activa =>
               /\ intentos[i].mensaje_id = 0
               /\ intentos[i].n_iniciar = 0
               /\ intentos[i].pc = "fin" /\ intentos[i].salida = "None"
               /\ intentos[i].enviados = <<MENSAJE_DESHABILITADA>>

\* C4 witness: a disabled kind refused to a user who could afford it.
C4_Witness ==
    \E i \in DOMAIN intentos :
        /\ ~intentos[i].activa
        /\ intentos[i].disponibles >= intentos[i].precio
        /\ intentos[i].enviados = <<MENSAJE_DESHABILITADA>>


\* C5: under the registry operations called in any order, a record that is
\* already exito, error or sin_datos keeps its estado through every further
\* call, and creditos_usados changes only in a call that resolves a record
\* that was still pendiente.
C5_ResolucionIdempotente ==
    [][ /\ \A id \in DOMAIN mensajes :
               mensajes[id].estado \in Resueltos =>
                   mensajes'[id].estado = mensajes[id].estado
        /\ (usuarios' # usuarios) => \E id \in DOMAIN mensajes : SeResuelve(id) ]_vars

\* C6: a worker whose loop ended at the deadline, every poll having answered
\* "processing", leaves the record in error with the timeout detail, sends the
\* generic failure text and has not charged.
C6_TimeoutEsError ==
    \A i \in DOMAIN intentos :
        (intentos[i].pc = "fin" /\ intentos[i].salida = "deadline") =>
            /\ Registro(i).estado = "error"
            /\ Registro(i).mensaje_error = "timeout"
            /\ intentos[i].enviados = <<MENSAJE_ERROR_GENERICO>>

ArranqueFallido ==
    /\ Len(intentos') = Len(intentos) + 1
    /\ intentos'[Len(intentos')].excepcion = "IniciarConsulta"

RecibioTerminal(i) ==
    /\ intentos[i].pc = "fin"
    /\ intentos[i].mensaje_id # 0
    /\ \/ intentos[i].salida = "break"
       \/ intentos[i].salida = "excepcion" /\ intentos[i].excepcion = "AttributeError"

\* What C8 promises for attempt i.
QuedaSinDatos(i) ==
    /\ Registro(i).estado = "sin_datos"
    /\ Registro(i).respuesta_bruta = intentos[i].ultimo_data
    /\ intentos[i].enviados = <<MENSAJE_SIN_DATOS>>
    /\ intentos[i].n_formateo = 0

\* C8 as stated: every terminal payload the classifier rejects leaves the record
\* sin_datos with the payload stored, and MENSAJE_SIN_DATOS is what is sent.
C8_Original ==
    \A i \in DOMAIN intentos :
        (RecibioTerminal(i) /\ ~es_respuesta_exitosa_hercules(intentos[i].ultimo_data))
            => QuedaSinDatos(i)

\* C8 amended: a terminal payload that is a non-empty JSON object and that the
\* classifier rejects leaves the record sin_datos with the payload stored,
\* MENSAJE_SIN_DATOS is what is sent, and the step charges nobody. (An empty
\* object, or a payload that is no JSON object, ends in error.)
C8_RechazadoEsSinDatos ==
    /\ [](\A i \in DOMAIN intentos :
              (/\ RecibioTerminal(i)
               /\ intentos[i].ultimo_data.clase = "dict"
               /\ ~es_respuesta_exitosa_hercules(intentos[i].ultimo_data))
                  => QuedaSinDatos(i))
    /\ [][\A id \in DOMAIN mensajes :
              (SeResuelve(id) /\ mensajes'[id].estado = "sin_datos")
                  => usuarios' = usuarios]_vars

\* C8 witness: final/OK status with an error flag in the content, received
\* after one "processing" poll, ended as sin_datos.
C8_Witness ==
    \E i \in DOMAIN intentos :
        /\ RecibioTerminal(i)
        /\ intentos[i].t > 0
        /\ PyStr(TipoDe(intentos[i].ultimo_data)) = "0"
        /\ MensajeDe(intentos[i].ultimo_data).Error = "True"
        /\ QuedaSinDatos(i)

\* C9: a worker whose polls answered "processing" any number of times and then,
\* before the deadline, a payload the classifier accepts, leaves the record
\* exito, has called the formatter once and sent its text first; and the step
\* that makes a record exito raises the owner's creditos_usados by exactly the
\* record's creditos_costo.
C9_ExitoCobraYPresenta ==
    /\ [](\A i \in DOMAIN intentos :
              (RecibioTerminal(i) /\ es_respuesta_exitosa_hercules(intentos[i].ultimo_data))
                  => /\ Registro(i).estado = "exito"
                     /\ Registro(i).respuesta_bruta = intentos[i].ultimo_data
                     /\ intentos[i].n_formateo = 1
                     /\ Len(intentos[i].enviados) >= 1)
    /\ [][\A id \in DOMAIN mensajes :
              (SeResuelve(id) /\ mensajes'[id].estado = "exito")
                  => Incremento(id) = mensajes[id].creditos_costo]_vars

\* C10: once the start handler and the worker of a registered attempt are
\* over, its record is exito, error or sin_datos: none is left pendiente.
C10_NingunoQuedaPendiente ==
    \A i \in DOMAIN intentos :
        (intentos[i].mensaje_id # 0 /\ intentos[i].pc = "fin")
            => Registro(i).estado \in Resueltos

\* The worker of attempt i ended in the except clause of _run.
TerminoEnExcepcion(i) ==
    /\ intentos[i].mensaje_id # 0
    /\ intentos[i].salida = "excepcion"

\* C11: a worker in which a poll raised (transport failure, bad status) or the
\* handling of the answer raised (the answer is no JSON object) has ended in
\* the except clause: its record is error with the exception's text as
\* mensaje_error, the generic failure text is the one thing sent, no formatter
\* ran, and the step that does this changes no user's credits.
C11_ExcepcionEsError ==
    /\ [](\A i \in DOMAIN intentos :
              TerminoEnExcepcion(i) =>
                  /\ intentos[i].pc = "fin"
                  /\ intentos[i].excepcion \in {"HTTPError", "AttributeError"}
                  /\ Registro(i).estado = "error"
                  /\ Registro(i).mensaje_error = intentos[i].excepcion
                  /\ intentos[i].enviados = <<MENSAJE_ERROR_GENERICO>>
                  /\ intentos[i].n_formateo = 0)
    /\ [][\A i \in DOMAIN intentos :
              (intentos[i].salida # "excepcion" /\ intentos'[i].salida = "excepcion")
                  => usuarios' = usuarios]_vars

\* C11 witness: a poll raised after an earlier poll had answered "processing",
\* and the record is in error with that exception as detail.
C11_Witness ==
    \E i \in DOMAIN intentos :
        /\ TerminoEnExcepcion(i)
        /\ intentos[i].excepcion = "HTTPError"
        /\ intentos[i].t > 0
        /\ Registro(i).estado = "error"
        /\ Registro(i).mensaje_error = "HTTPError"
        /\ intentos[i].enviados = <<MENSAJE_ERROR_GENERICO>>

\* Sum of creditos_costo over the records of user u that are exito.
CostoDeExitos(u) ==
    LET suma[n \in 0..Len(mensajes)] ==
            IF n = 0 THEN 0
            ELSE suma[n - 1]
                 + (IF mensajes[n].usuario_id = u /\ mensajes[n].estado = "exito"
                    THEN mensajes[n].creditos_costo ELSE 0)
    IN suma[Len(mensajes)]

\* C12: whatever the interleaving of the workers' read and commit steps, a
\* user's creditos_usados is the sum of the creditos_costo of that user's
\* records that are exito; two successes of one user leave the sum of both prices.
C12_CobrosSerializados ==
    \A u \in Usuarios : usuarios[u].creditos_usados = CostoDeExitos(u)

\* C13: the estado of a record is written exactly once, from pendiente to
\* exito, error or sin_datos: a record whose start handler and worker are over
\* has had one write, and no step changes the estado of a resolved record.
C13_CambiaUnaSolaVez ==
    /\ [](\A i \in DOMAIN intentos :
              (intentos[i].mensaje_id # 0 /\ intentos[i].pc = "fin")
                  => Registro(i).resoluciones = 1)
    /\ [][\A id \in DOMAIN mensajes :
              mensajes[id].estado \in Resueltos
                  => mensajes'[id].estado = mensajes[id].estado]_vars

\* C14: the record keeps the valor_consulta its start handler read, and the
\* commit of the charge adds that amount to the loaded creditos_usados,
\* whatever consultas_config holds at the time of the commit.
C14_CobraElPrecioCapturado ==
    /\ [](\A i \in DOMAIN intentos :
              intentos[i].mensaje_id # 0 =>
                  Registro(i).creditos_costo = intentos[i].precio)
    /\ [][\A i \in DOMAIN intentos :
              (intentos[i].pc = "cobrar" /\ intentos'[i].pc # "cobrar")
                  => usuarios'[intentos[i].usuario].creditos_usados
                         = intentos[i].leido + intentos[i].precio]_vars

\* C14 witness: a record was charged its captured price while the kind's
\* configured price is a different one.
C14_Witness ==
    \E i \in DOMAIN intentos :
        /\ intentos[i].pc = "entregar"
        /\ Registro(i).estado = "exito"
        /\ config[Registro(i).tipo_consulta].valor_consulta # Registro(i).creditos_costo
        /\ usuarios[intentos[i].usuario].creditos_usados = Registro(i).creditos_costo

\* C15: for every user, usuario_creditos_disponibles is creditos_total minus
\* creditos_usados when that is positive and 0 otherwise, so it is never
\* negative, also when creditos_usados exceeds creditos_total.
C15_DisponiblesNoNegativo ==
    \A u \in Usuarios :
        LET d == usuario_creditos_disponibles(usuarios[u])
            resta == usuarios[u].creditos_total - usuarios[u].creditos_usados
        IN  /\ d >= 0
            /\ d >= resta
            /\ d \in {0, resta}

\* C15 witness: a user has consumed more than was granted and the available
\* credits are 0.
C15_Witness ==
    \E u \in Usuarios :
        /\ usuarios[u].creditos_usados > usuarios[u].creditos_total
        /\ usuario_creditos_disponibles(usuarios[u]) = 0

\* C16: every start handler returns normally to the webhook: no exception of
\* any start, of any kind, leaves the handler.
C16_NadaSePropaga ==
    \A i \in DOMAIN intentos : ~intentos[i].propagada

\* C17: a vehicle lookup that was admitted and submitted is worked to its end,
\* and when its record is exito the PDF document was sent after the text.
C17_VehiculoExitoEntregaPdf ==
    \A i \in DOMAIN intentos :
        (/\ intentos[i].servicio = "vehiculo_placa"
         /\ intentos[i].id_peticion # "None"
         /\ intentos[i].pc = "fin")
            => /\ intentos[i].salida # "None"
               /\ Registro(i).estado = "exito" =>
                      /\ Len(intentos[i].enviados) >= 2
                      /\ intentos[i].enviados[Len(intentos[i].enviados)] = DOC_PDF

\* C18: a poll that raises a transport failure before the deadline does not end
\* the worker: a worker is over only after a terminal answer or at the deadline.
C18_FalloDeTransporteReintenta ==
    \A i \in DOMAIN intentos :
        (intentos[i].pc = "fin" /\ intentos[i].excepcion = "HTTPError")
            => ~(intentos[i].t < RESULTADOS_TIMEOUT)

\* C19: a start is judged on the kind's configuration and the user's balance
\* alone, lookups in flight playing no part; every admitted start makes its own
\* submit, every submitted start has a record no other start has, a record is
\* written only by a step of the attempt that owns it, and every record that
\* becomes exito does so in a commit of its own that adds its own creditos_costo
\* to the creditos_usados that commit's session loaded.
C19_SinDeduplicacion ==
    /\ [](/\ RegistrosDeIntentos
          /\ \A i \in DOMAIN intentos :
                 /\ (intentos[i].admision = "OK")
                        <=> (intentos[i].activa
                             /\ intentos[i].disponibles >= intentos[i].precio)
                 /\ (intentos[i].admision = "OK") => intentos[i].n_iniciar = 1
                 /\ (intentos[i].id_peticion # "None") => intentos[i].mensaje_id # 0)
    /\ [][/\ \A id \in DOMAIN mensajes :
                 mensajes'[id] # mensajes[id] =>
                     \E i \in DOMAIN intentos :
                         /\ intentos[i].mensaje_id = id
                         /\ intentos'[i] # intentos[i]
                         /\ \A j \in DOMAIN intentos \ {i} : intentos'[j] = intentos[j]
          /\ \A id \in DOMAIN mensajes :
                 (SeResuelve(id) /\ mensajes'[id].estado = "exito") =>
                     \E i \in DOMAIN intentos :
                         /\ intentos[i].mensaje_id = id
                         /\ usuarios'[mensajes[id].usuario_id].creditos_usados
                                = intentos[i].leido + mensajes[id].creditos_costo]_vars

\* C19 witness: the same user started the same service twice, the second while
\* the first was in flight; the second is resolved exito and charged while the
\* first is still being worked, each with a record of its own.
C19_Witness ==
    /\ Len(intentos) = 2
    /\ intentos[1].usuario = intentos[2].usuario
    /\ intentos[1].servicio = intentos[2].servicio
    /\ intentos[1].pc = "sondeo"
    /\ intentos[2].pc = "fin"
    /\ intentos[1].mensaje_id # intentos[2].mensaje_id
    /\ intentos[1].mensaje_id # 0 /\ intentos[2].mensaje_id # 0
    /\ Registro(1).estado = "pendiente"
    /\ Registro(2).estado = "exito"
    /\ usuarios[intentos[2].usuario].creditos_usados = Registro(2).creditos_costo

\* C20: an attempt that is over without its record being exito has sent exactly
\* one text, one of the four fixed ones, and no formatter ran for it.
C20_UnSoloMensajeFijo ==
    \A i \in DOMAIN intentos :
        (/\ intentos[i].pc = "fin"
         /\ (intentos[i].mensaje_id = 0 \/ Registro(i).estado # "exito"))
            => /\ Len(intentos[i].enviados) = 1
               /\ intentos[i].enviados[1] \in
                      {MENSAJE_DESHABILITADA, MENSAJE_SIN_CREDITOS,
                       MENSAJE_ERROR_GENERICO, MENSAJE_SIN_DATOS}
               /\ intentos[i].n_formateo = 0

SeRegistra == Len(mensajes') > Len(mensajes)

EstadoFinalOK(d) ==
    (IF d.Tipo # "None" THEN d.Tipo ELSE d.tipo) \in {"i0", "s0"}

\* A content that is absent or empty.
Vacio(m) == m.clase \in {"None", "str_vacio", "dict_vacio"}

\* The inner content of the payload: Mensaje, or mensaje when Mensaje is
\* absent or empty.
ContenidoInterno(d) == IF Vacio(d.Mensaje) THEN d.mensaje ELSE d.Mensaje

\* The inner content is a JSON object, given as such or as its text.
Estructurado(m) == m.clase \in {"str_json_dict", "dict"}

\* Rule 3: the error flag is set true.
Regla3(m) == m.Error = "True"

\* Rule 4 as the specification words it: a result code is present and is not
\* equal to EXITOSO.
Regla4Literal(m) ==
    \/ m.codigoResultado \notin {"None", "EXITOSO"}
    \/ m.codigo \notin {"None", "EXITOSO"}

\* Rule 4 as amended: the result code is codigoResultado, or codigo when
\* codigoResultado is absent or empty; it is non-empty and differs from
\* EXITOSO when letter case is ignored.
Regla4Codigo(m) ==
    LET c == IF m.codigoResultado \in {"None", ""} THEN m.codigo ELSE m.codigoResultado
    IN  c \notin {"None", "", "EXITOSO", "exitoso"}

\* Rule 5: the free-text error contains "no encontrado", case ignored.
Regla5(m) == m.error = "Vehiculo No Encontrado"

C23_Reglas1y2 ==
    \A k \in DOMAIN clasificacion.resultados :
        LET d == clasificacion.data IN
        /\ ~EstadoFinalOK(d) => ~clasificacion.resultados[k]
        /\ (EstadoFinalOK(d) /\ Vacio(ContenidoInterno(d))) => ~clasificacion.resultados[k]

\* C23 witness: a payload with the final status and empty content was refused;
\* nothing but rule 2 refuses it.
C23_Witness ==
    /\ Len(clasificacion.resultados) >= 1
    /\ clasificacion.data.clase = "dict"
    /\ clasificacion.data.Tipo = "s0"
    /\ clasificacion.data.Mensaje.clase = "str_vacio"
    /\ clasificacion.data.mensaje.clase = "None"
    /\ ~clasificacion.resultados[1]

C25_Regla6 ==
    \A k \in DOMAIN clasificacion.resultados :
        LET d == clasificacion.data
            m == ContenidoInterno(d) IN
        (/\ d.clase \in {"dict", "str_dict"}
         /\ EstadoFinalOK(d)
         /\ ~Vacio(m))
            => /\ (~Estructurado(m) => clasificacion.resultados[k])
               /\ (Estructurado(m) /\ ~Regla3(m) /\ ~Regla4Codigo(m) /\ ~Regla5(m))
                      => clasificacion.resultados[k]

\* C25 witness: content that cannot be parsed was accepted.
C25_Witness ==
    /\ Len(clasificacion.resultados) >= 1
    /\ EstadoFinalOK(clasificacion.data)
    /\ ContenidoInterno(clasificacion.data).clase = "str_no_json"
    /\ clasificacion.resultados[1]

\* ---- the polling loop: claim vocabulary ----

\* The status of the payload is "processing": Tipo, or tipo when Tipo is
\* absent, is the number 2.
EnProceso(d) == (IF d.Tipo # "None" THEN d.Tipo ELSE d.tipo) = "i2"

\* The worker of attempt i takes a step of its polling loop.
PasoDelBucle(i) ==
    /\ intentos[i].pc = "sondeo"
    /\ intentos'[i] # intentos[i]

\* C26: a turn of the loop that starts before the deadline issues its poll and
\* uses what the poll gives, however late the poll returns; a turn that starts
\* at or after the deadline issues no poll and leaves the loop with the payload
\* and the clock as they were.
C26_PlazoAntesDeCadaSondeo ==
    [][\A i \in DOMAIN intentos :
          PasoDelBucle(i) =>
              IF intentos[i].t < RESULTADOS_TIMEOUT
              THEN /\ intentos'[i].salida # "deadline"
                   /\ intentos'[i].t >= intentos[i].t
              ELSE /\ intentos'[i].salida = "deadline"
                   /\ intentos'[i].ultimo_data = intentos[i].ultimo_data
                   /\ intentos'[i].t = intentos[i].t
                   /\ intentos'[i].pc # "sondeo"]_vars

\* C26 witness: a poll issued before the deadline returned at the deadline or
\* later, and its answer was used: the record is exito.
C26_Witness ==
    \E i \in DOMAIN intentos :
        /\ intentos[i].salida = "break"
        /\ intentos[i].t >= RESULTADOS_TIMEOUT
        /\ intentos[i].mensaje_id # 0
        /\ Registro(i).estado = "exito"
        /\ Registro(i).respuesta_bruta = intentos[i].ultimo_data

\* C27: the loop goes on only after a poll that answered "processing"; once it
\* is left no poll follows, the payload and the clock stay as they are; a loop
\* left through a poll's answer holds an answer that is not "processing", and
\* that answer is the one stored in the record.
C27_SaleConLaPrimeraRespuestaFinal ==
    /\ [](\A i \in DOMAIN intentos :
              intentos[i].salida = "break" =>
                  /\ intentos[i].pc # "sondeo"
                  /\ ~EnProceso(intentos[i].ultimo_data)
                  /\ (/\ intentos[i].mensaje_id # 0
                      /\ Registro(i).estado \in {"exito", "sin_datos"})
                         => Registro(i).respuesta_bruta = intentos[i].ultimo_data)
    /\ [][\A i \in DOMAIN intentos :
             /\ intentos[i].pc # "sondeo" =>
                    /\ intentos'[i].ultimo_data = intentos[i].ultimo_data
                    /\ intentos'[i].t = intentos[i].t
                    /\ intentos'[i].salida = intentos[i].salida
                    /\ intentos'[i].pc # "sondeo"
             /\ (PasoDelBucle(i) /\ intentos'[i].pc = "sondeo") =>
                    EnProceso(intentos'[i].ultimo_data)]_vars

\* C27 witness: after a poll that answered "processing", the next poll gave a
\* final answer; the worker is over and that answer is stored.
C27_Witness ==
    \E i \in DOMAIN intentos :
        /\ intentos[i].salida = "break"
        /\ intentos[i].pc = "fin"
        /\ intentos[i].t = RESULTADOS_INTERVALO
        /\ Registro(i).estado = "sin_datos"
        /\ Registro(i).respuesta_bruta = intentos[i].ultimo_data

\* C28: every turn of the loop either leaves the loop or moves the clock on,
\* and the clock of a worker in the loop is bounded, so the polls are finitely
\* many; the turn taken at the deadline issues no poll, resolves the record and
\* ends the worker.
C28_ElTrabajadorTermina ==
    /\ [](\A i \in DOMAIN intentos :
              intentos[i].pc = "sondeo" =>
                  intentos[i].t < RESULTADOS_TIMEOUT + MaxDuracion + RESULTADOS_INTERVALO)
    /\ [][\A i \in DOMAIN intentos :
             PasoDelBucle(i) =>
                 /\ (intentos'[i].pc # "sondeo" \/ intentos'[i].t > intentos[i].t)
                 /\ (intentos[i].t >= RESULTADOS_TIMEOUT) =>
                        (/\ intentos'[i].pc = "fin"
                         /\ mensajes'[intentos[i].mensaje_id].estado \in Resueltos)]_vars

\* C28 witness: every poll answered "processing"; the worker left the loop at
\* the deadline, its record is resolved and it is over.
C28_Witness ==
    \E i \in DOMAIN intentos :
        /\ intentos[i].salida = "deadline"
        /\ EnProceso(intentos[i].ultimo_data)
        /\ intentos[i].t >= RESULTADOS_TIMEOUT
        /\ intentos[i].pc = "fin"
        /\ Registro(i).estado \in Resueltos

\* What the success path delivers.
Presentacion == {TEXTO_RESULTADO, DOC_FIRMA, DOC_PDF}

\* C29: an attempt for which a formatter ran or a result was sent has its
\* record exito, the charge being committed; the step that delivers starts
\* from a state in which the record is already exito.
C29_CobroAntesDeEntregar ==
    /\ [](\A i \in DOMAIN intentos :
              (\/ intentos[i].n_formateo > 0
               \/ \E k \in DOMAIN intentos[i].enviados :
                      intentos[i].enviados[k] \in Presentacion)
                 => /\ intentos[i].mensaje_id # 0
                    /\ Registro(i).estado = "exito")
    /\ [][\A i \in DOMAIN intentos :
             intentos'[i].enviados # intentos[i].enviados =>
                 \/ intentos'[i].n_formateo = intentos[i].n_formateo
                 \/ /\ intentos[i].mensaje_id # 0
                    /\ Registro(i).estado = "exito"
                    /\ usuarios' = usuarios]_vars

\* C29 witness: a result and its signature were delivered; the record is exito
\* and the user's consumed credits hold its price.
C29_Witness ==
    \E i \in DOMAIN intentos :
        /\ intentos[i].pc = "fin"
        /\ intentos[i].n_formateo = 1
        /\ intentos[i].enviados = <<TEXTO_RESULTADO, DOC_FIRMA>>
        /\ Registro(i).estado = "exito"
        /\ usuarios[intentos[i].usuario].creditos_usados >= Registro(i).creditos_costo

\* C30: creditos_usados of a user never decrease, and they change only in a
\* step that resolves one of that user's records as exito.
C30_UsadosSoloCrecenPorExito ==
    [][\A u \in Usuarios :
          /\ usuarios'[u].creditos_usados >= usuarios[u].creditos_usados
          /\ (usuarios'[u].creditos_usados # usuarios[u].creditos_usados) =>
                 \E id \in DOMAIN mensajes :
                     /\ mensajes[id].usuario_id = u
                     /\ SeResuelve(id)
                     /\ mensajes'[id].estado = "exito"]_vars

\* The step is a call of marcar_mensaje_error_o_sin_datos: a registry call
\* that does not write exito on any record.
EsMarcarError ==
    /\ llamadas' = llamadas + 1
    /\ \A id \in DOMAIN mensajes :
           ~(/\ mensajes'[id].estado = "exito"
             /\ mensajes'[id].resoluciones # mensajes[id].resoluciones)

\* C31: a call of marcar_mensaje_error_o_sin_datos, for any id, estado, detail
\* and payload, leaves creditos_total and creditos_usados of every user and the
\* configuration as they were, adds and removes no record, changes at most one
\* record and on it nothing but estado, mensaje_error and respuesta_bruta.
C31_FalloNoTocaElLibro ==
    [][EsMarcarError =>
          /\ usuarios' = usuarios
          /\ config' = config
          /\ Len(mensajes') = Len(mensajes)
          /\ \A id \in DOMAIN mensajes :
                 /\ mensajes'[id].usuario_id = mensajes[id].usuario_id
                 /\ mensajes'[id].tipo_consulta = mensajes[id].tipo_consulta
                 /\ mensajes'[id].nombre_servicio = mensajes[id].nombre_servicio
                 /\ mensajes'[id].creditos_costo = mensajes[id].creditos_costo
          /\ \A id, otro \in DOMAIN mensajes :
                 (mensajes'[id] # mensajes[id] /\ mensajes'[otro] # mensajes[otro])
                     => id = otro]_vars

\* C31 witness: a user was charged for one record and a second record of the
\* same user was then marked sin_datos with a detail and a payload; the
\* consumed credits are the price of the first record.
C31_Witness ==
    /\ Len(mensajes) = 2
    /\ mensajes[1].estado = "exito"
    /\ mensajes[2].estado = "sin_datos"
    /\ mensajes[2].mensaje_error = "timeout"
    /\ mensajes[2].respuesta_bruta # SinDatos
    /\ mensajes[2].usuario_id = mensajes[1].usuario_id
    /\ mensajes[2].creditos_costo > 0
    /\ usuarios[mensajes[1].usuario_id].creditos_usados = mensajes[1].creditos_costo

\* The handles the acknowledgments carry.
Manejadores == {"guid"}

\* A worker was launched for attempt i.
TrabajadorLanzado(i) == intentos[i].pc # "fin" \/ intentos[i].salida # "None"

\* C32: an attempt whose submit was made either holds a handle, which is not
\* empty, or its submit raised, and then it holds no handle, has no record and
\* no worker; a worker exists only for an attempt holding a handle.
C32_ManejadorOExcepcion ==
    \A i \in DOMAIN intentos :
        /\ intentos[i].n_iniciar = 1 =>
               \/ /\ intentos[i].excepcion = "IniciarConsulta"
                  /\ intentos[i].id_peticion = "None"
                  /\ intentos[i].mensaje_id = 0
                  /\ ~TrabajadorLanzado(i)
               \/ /\ intentos[i].excepcion # "IniciarConsulta"
                  /\ intentos[i].id_peticion \in Manejadores
        /\ TrabajadorLanzado(i) =>
               /\ intentos[i].n_iniciar = 1
               /\ intentos[i].id_peticion \in Manejadores

\* C32 witness: the submit of one attempt raised and nothing was launched; the
\* submit of another returned a handle and its worker has run to its end.
C32_Witness ==
    \E i, j \in DOMAIN intentos :
        /\ intentos[i].excepcion = "IniciarConsulta"
        /\ ~TrabajadorLanzado(i)
        /\ intentos[j].id_peticion \in Manejadores
        /\ intentos[j].salida # "None"
        /\ intentos[j].pc = "fin"

\* Attempt i passed admission, made its submit and is over without a charge:
\* the submit raised, or the worker resolved the record error or sin_datos.
Fallido(i) ==
    /\ intentos[i].pc = "fin"
    /\ intentos[i].admision = "OK"
    /\ intentos[i].n_iniciar = 1
    /\ (intentos[i].mensaje_id = 0 \/ Registro(i).estado \in {"error", "sin_datos"})

\* The way attempt i failed, details left aside.
ClaseDeFallo(i) ==
    IF intentos[i].mensaje_id = 0 THEN "error" ELSE Registro(i).estado

\* C33: two attempts that failed the same way have been sent the same texts,
\* whatever exception text and whatever payload each of them met; what is sent
\* is one of the fixed texts, and the exception text and the payload of a
\* worker's failure are on its record.
C33_DetalleNoSeMuestra ==
    /\ \A i, j \in DOMAIN intentos :
           (Fallido(i) /\ Fallido(j) /\ ClaseDeFallo(i) = ClaseDeFallo(j))
               => intentos[i].enviados = intentos[j].enviados
    /\ \A i \in DOMAIN intentos :
           Fallido(i) =>
               /\ \A k \in DOMAIN intentos[i].enviados :
                      intentos[i].enviados[k] \in {MENSAJE_ERROR_GENERICO, MENSAJE_SIN_DATOS}
               /\ (intentos[i].mensaje_id # 0 /\ intentos[i].salida = "excepcion")
                      => Registro(i).mensaje_error = intentos[i].excepcion
               /\ (intentos[i].mensaje_id # 0 /\ Registro(i).estado = "sin_datos")
                      => Registro(i).respuesta_bruta = intentos[i].ultimo_data

\* C33 witness: two workers failed on different exceptions, each record holds
\* its own exception text, and both chats got the same single text.
C33_Witness ==
    \E i, j \in DOMAIN intentos :
        /\ Fallido(i) /\ Fallido(j)
        /\ intentos[i].mensaje_id # 0 /\ intentos[j].mensaje_id # 0
        /\ intentos[i].usuario = intentos[j].usuario
        /\ intentos[i].servicio = intentos[j].servicio
        /\ Registro(i).estado = "error" /\ Registro(j).estado = "error"
        /\ Registro(i).mensaje_error = "HTTPError"
        /\ Registro(j).mensaje_error = "AttributeError"
        /\ intentos[i].enviados = <<MENSAJE_ERROR_GENERICO>>
        /\ intentos[j].enviados = <<MENSAJE_ERROR_GENERICO>>

\* C34: creditos_usados of a user never exceed the user's creditos_total.
C34_UsadosNoExcedenTotal ==
    \A u \in Usuarios : usuarios[u].creditos_usados <= usuarios[u].creditos_total

\* C35: a worker that has made its record exito and is over has sent the
\* formatted result first and has not sent the generic failure text.
C35_CobradoRecibeResultado ==
    \A i \in DOMAIN intentos :
        (/\ intentos[i].pc = "fin"
         /\ intentos[i].mensaje_id # 0
         /\ Registro(i).estado = "exito")
            => /\ Len(intentos[i].enviados) >= 1
               /\ intentos[i].enviados[1] = TEXTO_RESULTADO
               /\ \A k \in DOMAIN intentos[i].enviados :
                      intentos[i].enviados[k] # MENSAJE_ERROR_GENERICO

\* C36: for every attempt that was submitted and registered, the kind whose
\* configuration was read at admission is the kind that was submitted and the
\* kind stored on the record, and that kind has a configuration.
C36_MismoTipoEnAdmisionYRegistro ==
    \A i \in DOMAIN intentos :
        intentos[i].mensaje_id # 0 =>
            /\ intentos[i].tipo_consulta = intentos[i].tipo_admision
            /\ Registro(i).tipo_consulta = intentos[i].tipo_admision
            /\ Registro(i).tipo_consulta \in DOMAIN config

\* The status of the payload denotes "processing" in one of the encodings in
\* which the classifier reads a status: Tipo, or tipo when Tipo is absent, is
\* 2 as a number or as a text.
DenotaProceso(d) ==
    (IF d.Tipo # "None" THEN d.Tipo ELSE d.tipo) \in {"i2", "s2"}

\* C37: a worker that left its loop through the answer of a poll, and so
\* before the deadline test could end it, did not leave it on an answer that
\* denotes "processing"; no record is resolved on such an answer.
C37_ProcesandoNoSeResuelve ==
    \A i \in DOMAIN intentos :
        intentos[i].salida = "break" => ~DenotaProceso(intentos[i].ultimo_data)

\* The row get_or_create_usuario_from_update inserts for a new user.
UsuarioNuevo == [creditos_total |-> 10, creditos_usados |-> 0]

\* C38: a start by a user who still holds the starting grant and has consumed
\* nothing, for a kind that is ACTIVA at the seeded price, passes admission.
C38_GrantInicialAdmite ==
    \A i \in DOMAIN intentos :
        (/\ usuarios[intentos[i].usuario] = UsuarioNuevo
         /\ intentos[i].disponibles = UsuarioNuevo.creditos_total
         /\ intentos[i].activa
         /\ intentos[i].precio = ConfigInicial.valor_consulta)
            => intentos[i].admision = "OK"

====
